---- MODULE Spec2Model ----
(***************************************************************************)
(* Model of the http output of beats-output-http-2 (src/http.go):          *)
(* httpOutput.Publish with its serialization strategies, httpOutput.send   *)
(* with the request pool (getReq / putReq), the transport's DialContext    *)
(* callback and the caching resolver it calls (package resolver).          *)
(***************************************************************************)
EXTENDS Integers, Sequences, FiniteSets, TLC

\* ------------------------------------------------------------------ bounds
MaxBatch == 2       \* longest batch handed to Publish
MaxOther == 1       \* longest batch of the invocation running beside it
MaxObjs == 2        \* request objects the pool may have constructed
MaxAddrs == 2       \* longest address list the resolver hands back
MaxTokens == 36     \* most space-separated tokens in a "body" field
MaxTime == 5        \* the clock of the resolver's cache stops here

\* --------------------------------------------------------------- constants
StatusOK == 200     \* http.StatusOK
OptionalFrom == 29  \* len(slice) > 29
DefaultTimeout == 100   \* a response_header_timeout of 100 ms

Workers == {1, 2}
Statuses == {200, 201, 204, 301, 404, 500}
IPs == {"10.0.0.1", "10.0.0.2"}
NoObj == 0
NoConn == "nil"

VARIABLES
    conf,       \* out.conf: OnlyFields, whether URL parses, whether Username
                \* is set, ResponseHeaderTimeout (ms)
    events,     \* events[w]: batch.Events() of worker w's Publish invocation
    pc,         \* pc[w]: position of worker w inside Publish / send
    idx,        \* idx[w]: the loop variable i of Publish (1-based)
    data,       \* data[w]: serializedEvent
    req,        \* req[w]: the pooled request send holds (NoObj: none)
    sendErr,    \* sendErr[w]: the error send returns ("nil": success)
    ret,        \* ret[w]: what Publish returned ("none": has not returned)
    log,        \* log[w]: calls made by the invocation, in program order
    idle,       \* reqPool: the objects sitting in the pool
    made,       \* request objects constructed by reqPool.New so far
    body,       \* body[o]: the payloads still unread in req.Body of object o
    hdr,        \* hdr[o]: the header fields set on request object o
    replies,    \* the responses the remote endpoint can give
    silent,     \* the remote endpoint may accept a request and never answer
    dpc,        \* position inside DialContext
    daddr,      \* the addr argument splits into host and port
    dips,       \* ips returned by dnsCache.LookupHost
    dk,         \* index of the next candidate in ips (1-based)
    dconn,      \* named result conn
    derr,       \* named result err
    dtried,     \* the calls of dialer.DialContext and their results, in order
    daccept,    \* the candidate addresses that accept connections
    ctxDone,    \* the caller's context is cancelled / past its deadline
    now,        \* the clock the resolver's cache reads
    cache,      \* the cache's entry for the host (NoEntry: none)
    resolved    \* the last two results of dnsCache.LookupHost, in order

pubVars ==
    <<conf, events, pc, idx, data, req, sendErr, ret, log, idle, made, body, hdr,
      replies, silent>>
dialVars == <<dpc, daddr, dips, dk, dconn, derr, dtried, daccept, ctxDone>>
dnsVars == <<now, cache, resolved>>
vars == <<pubVars, dialVars, dnsVars>>

\* ------------------------------------------------------------------ events
StringBody(n) == [type |-> "string", ntok |-> n]
NoBody == [type |-> "none", ntok |-> 0]
\* a "body" field that holds something other than a string
OtherBody == [type |-> "other", ntok |-> 0]

\* an event: its position in the batch, its "body" field, whether its fields
\* can be encoded, and what serializeOnlyFields has written into its fields
MkEvent(i, b, m) ==
    [id |-> i, body |-> b, encodable |-> m, stamped |-> FALSE, parsed |-> FALSE]

\* the contents an event of the model can have
EventKinds ==
    { [body |-> StringBody(35), encodable |-> TRUE],
      [body |-> StringBody(35), encodable |-> FALSE],
      [body |-> StringBody(5), encodable |-> TRUE] }

\* every shape of "body" serializeOnlyFields can be handed
BodyKinds == {NoBody, OtherBody} \cup { StringBody(n) : n \in 1..MaxTokens }

BatchesOfLen(n) ==
    { [i \in 1..n |-> MkEvent(i, k[i].body, k[i].encodable)] :
        k \in [1..n -> EventKinds] }

BatchesUpTo(max) == UNION { BatchesOfLen(n) : n \in 0..max }

\* ----------------------------------------------------------- serialization
NoData == [enc |-> "none", id |-> 0, opt |-> FALSE]

\* the token indexes serializeOnlyFields reads unconditionally, and those it
\* reads when len(slice) > 29
FixedTokens == {3, 4, 6, 8, 9, 10, 11, 12, 13, 14, 17, 19, 21, 23, 25, 26, 28}
OptionalTokens == {30, 32, 34}

\* slice[i] of a slice of n tokens is in range
InRange(n, i) == i < n

\* serializeOnlyFields(event): res is "ok" (bytes returned), "err" (an error
\* returned) or "panic" (a failed type assertion or an index out of range);
\* ev is the event as the call leaves it (its Fields map is shared with the
\* batch, so the writes are visible in batch.Events()).
serializeOnlyFields(event) ==
    LET stamped == [event EXCEPT !.stamped = TRUE]
        n == event.body.ntok
    IN  IF event.body.type # "string"
        THEN [res |-> "panic", data |-> NoData, ev |-> stamped]
        ELSE IF \E i \in FixedTokens : ~InRange(n, i)
        THEN [res |-> "panic", data |-> NoData, ev |-> stamped]
        ELSE IF n > OptionalFrom /\ \E i \in OptionalTokens : ~InRange(n, i)
        THEN [res |-> "panic", data |-> NoData, ev |-> stamped]
        ELSE IF ~event.encodable
        THEN [res |-> "err", data |-> NoData,
              ev |-> [stamped EXCEPT !.parsed = TRUE]]
        ELSE [res |-> "ok",
              data |-> [enc |-> "fields", id |-> event.id, opt |-> n > OptionalFrom],
              ev |-> [stamped EXCEPT !.parsed = TRUE]]

\* serializeAll(event): out.codec.Encode of the event's content
serializeAll(event) ==
    IF ~event.encodable
    THEN [res |-> "err", data |-> NoData, ev |-> event]
    ELSE [res |-> "ok",
          data |-> [enc |-> "codec", id |-> event.id, opt |-> FALSE],
          ev |-> event]

\* out.serialize, selected in makeHTTP
serialize(c, event) ==
    IF c.OnlyFields THEN serializeOnlyFields(event) ELSE serializeAll(event)

\* ------------------------------------------------------ calls of a Publish
Entry(op, n, arg) == [op |-> op, n |-> n, arg |-> arg]

\* the batch and observer calls Publish makes on each of its exits
\* (mutant: the empty batch returns without acknowledging)
EmptyBatchCalls_NoAck(evs) == << >>

EmptyBatchCalls(evs) == << Entry("ACK", 0, <<>>) >>

\* (mutant: only the events from the failed one on are handed back)
SerializeFailureCalls_SubSlice(evs, i) ==
    << Entry("RetryEvents", Len(evs) - i + 1, SubSeq(evs, i, Len(evs))),
       Entry("Failed", Len(evs), <<>>) >>

\* (mutant: the retried batch is not reported to the observer)
SerializeFailureCalls_Unreported(evs, i) ==
    << Entry("RetryEvents", Len(evs), evs) >>

\* (i is the index of the event that failed to serialize)
SerializeFailureCalls(evs, i) ==
    << Entry("RetryEvents", Len(evs), evs), Entry("Failed", Len(evs), <<>>) >>

\* (mutant: the send failure also hands the batch back for retry)
SendFailureCalls_Retry(evs) ==
    << Entry("RetryEvents", Len(evs), evs), Entry("Failed", Len(evs), <<>>) >>

SendFailureCalls(evs) == << Entry("Failed", Len(evs), <<>>) >>

\* (mutant: the batch is counted as acked but never acknowledged)
SuccessCalls_NoAck(evs) == << Entry("Acked", Len(evs), <<>>) >>

SuccessCalls(evs) == << Entry("ACK", 0, <<>>), Entry("Acked", Len(evs), <<>>) >>

\* the value every return statement of Publish returns
PublishReturn(cause) == "nil"

\* (mutant: the result of send is ignored and the loop goes on)
SendFailed_Ignored(err) == FALSE

\* if err = out.send(serializedEvent); err != nil
SendFailed(err) == err # "nil"

\* ----------------------------------------------------------------- Publish
\* st.NewBatch(len(events)); the empty batch is acknowledged at once
PublishStart(w) ==
    /\ pc[w] = "start"
    /\ IF Len(events[w]) = 0
       THEN /\ log' = [log EXCEPT ![w] =
                        <<Entry("NewBatch", 0, <<>>)>> \o EmptyBatchCalls(events[w])]
            /\ ret' = [ret EXCEPT ![w] = PublishReturn("empty")]
            /\ pc' = [pc EXCEPT ![w] = "done"]
            /\ idx' = idx
       ELSE /\ log' = [log EXCEPT ![w] = <<Entry("NewBatch", Len(events[w]), <<>>)>>]
            /\ idx' = [idx EXCEPT ![w] = 1]
            /\ pc' = [pc EXCEPT ![w] = "serialize"]
            /\ ret' = ret
    /\ UNCHANGED <<conf, events, data, req, sendErr, idle, made, body, hdr, replies, silent,
                   dialVars, dnsVars>>

\* out.serialize(&event) and the err != nil branch after it
Serialize(w) ==
    /\ pc[w] = "serialize"
    /\ LET r == serialize(conf, events[w][idx[w]])
           evs == [events[w] EXCEPT ![idx[w]] = r.ev]
           called == Append(log[w], Entry("serialize", idx[w], <<>>))
       IN  /\ events' = [events EXCEPT ![w] = evs]
           /\ CASE r.res = "panic" ->
                    /\ pc' = [pc EXCEPT ![w] = "panicked"]
                    /\ log' = [log EXCEPT ![w] = called]
                    /\ UNCHANGED <<data, ret>>
                [] r.res = "err" ->
                    /\ log' = [log EXCEPT ![w] = called \o SerializeFailureCalls(evs, idx[w])]
                    /\ ret' = [ret EXCEPT ![w] = PublishReturn("serialize")]
                    /\ pc' = [pc EXCEPT ![w] = "done"]
                    /\ UNCHANGED data
                [] r.res = "ok" ->
                    /\ data' = [data EXCEPT ![w] = r.data]
                    /\ log' = [log EXCEPT ![w] = called]
                    /\ pc' = [pc EXCEPT ![w] = "getReq"]
                    /\ UNCHANGED ret
    /\ UNCHANGED <<conf, idx, req, sendErr, idle, made, body, hdr, replies, silent, dialVars, dnsVars>>

\* reqPool.New: http.NewRequest fails when conf.URL does not parse
PoolNew(c) == IF c.URLValid THEN "request" ELSE "error"

\* (mutant: Get hands an object out and leaves it in the pool)
PoolTake_Keep(pool, o) == pool

\* reqPool.Get() taking object o out of the pool
PoolTake(pool, o) == pool \ {o}

\* (mutant: the payload is written behind what is left in the old buffer)
NewBody_Append(old, d) == old \o <<d>>

\* req.Body = ioutil.NopCloser(bytes.NewBuffer(data))
NewBody(old, d) == <<d>>

\* the header fields of the request after getReq's Header.Set / SetBasicAuth
SetHeaders(old, c) ==
    old \cup {"User-Agent", "Content-Type"}
        \cup (IF c.Username THEN {"Authorization"} ELSE {})

\* out.send(serializedEvent) up to its defer: getReq(data), with
\* reqPool.Get() handing back an idle object or, when it finds none, the
\* result of New
GetReq(w) ==
    /\ pc[w] = "getReq"
    /\ \/ \E o \in idle :
            /\ idle' = PoolTake(idle, o)
            /\ body' = [body EXCEPT ![o] = NewBody(@, data[w])]
            /\ hdr' = [hdr EXCEPT ![o] = SetHeaders(@, conf)]
            /\ req' = [req EXCEPT ![w] = o]
            /\ pc' = [pc EXCEPT ![w] = "do"]
            /\ log' = [log EXCEPT ![w] =
                         @ \o << Entry("send", idx[w], <<data[w]>>),
                                 Entry("getReq", o, <<>>) >>]
            /\ UNCHANGED <<made, sendErr>>
       \/ /\ PoolNew(conf) = "request"
          /\ made < MaxObjs
          /\ made' = made + 1
          /\ body' = [body EXCEPT ![made + 1] = NewBody(@, data[w])]
          /\ hdr' = [hdr EXCEPT ![made + 1] = SetHeaders(@, conf)]
          /\ req' = [req EXCEPT ![w] = made + 1]
          /\ pc' = [pc EXCEPT ![w] = "do"]
          /\ log' = [log EXCEPT ![w] =
                       @ \o << Entry("send", idx[w], <<data[w]>>),
                               Entry("getReq", made + 1, <<>>) >>]
          /\ UNCHANGED <<idle, sendErr>>
       \/ /\ PoolNew(conf) = "error"
          /\ sendErr' = [sendErr EXCEPT ![w] = "pool"]
          /\ pc' = [pc EXCEPT ![w] = "sendRet"]
          /\ log' = [log EXCEPT ![w] =
                       @ \o << Entry("send", idx[w], <<data[w]>>),
                               Entry("getReq", NoObj, <<>>) >>]
          /\ UNCHANGED <<idle, made, body, hdr, req>>
    /\ UNCHANGED <<conf, events, idx, data, ret, replies, silent, dialVars, dnsVars>>

\* (mutant: every 2xx status counts as success)
StatusError_Any2xx(status) ==
    IF status < 200 \/ status >= 300 THEN "status" ELSE "nil"

\* the error send returns for a response with this status code
StatusError(status) == IF status # StatusOK THEN "status" ELSE "nil"

\* (mutant: a failed close of the response body is returned as the error)
SendResult_CloseError(status, closes) ==
    IF ~closes THEN "close" ELSE StatusError(status)

\* what send returns once it has a response: the close error is only logged
SendResult(status, closes) == StatusError(status)

\* client.Do returning a response, resp.Body.Close() and its warning
ResponseCalls(sent, r) ==
    << Entry("Do", r.status, sent), Entry("Close", IF r.closes THEN 1 ELSE 0, <<>>) >>
        \o (IF r.closes THEN <<>> ELSE << Entry("Warn", 0, <<>>) >>)

\* tr.ResponseHeaderTimeout: the transport times a silent endpoint out only
\* when the duration is positive
HeaderTimeout(c) == c.Timeout > 0

\* out.client.Do(req), resp.Body.Close() and the status check
Do(w) ==
    /\ pc[w] = "do"
    /\ \/ \E rest \in {<<>>, body[req[w]]} :
            /\ sendErr' = [sendErr EXCEPT ![w] = "transport"]
            /\ log' = [log EXCEPT ![w] = Append(@, Entry("Do", 0, body[req[w]]))]
            /\ body' = [body EXCEPT ![req[w]] = rest]
            /\ pc' = [pc EXCEPT ![w] = "putReq"]
       \/ \E r \in replies :
            /\ sendErr' = [sendErr EXCEPT ![w] = SendResult(r.status, r.closes)]
            /\ log' = [log EXCEPT ![w] = @ \o ResponseCalls(body[req[w]], r)]
            /\ body' = [body EXCEPT ![req[w]] = <<>>]
            /\ pc' = [pc EXCEPT ![w] = "putReq"]
       \/ /\ silent
          /\ ~HeaderTimeout(conf)
          /\ body' = [body EXCEPT ![req[w]] = <<>>]
          /\ pc' = [pc EXCEPT ![w] = "waiting"]
          /\ UNCHANGED <<sendErr, log>>
    /\ UNCHANGED <<conf, events, idx, data, req, ret, idle, made, hdr, replies, silent,
                   dialVars, dnsVars>>

\* (mutant: putReq is called on the success path only, not deferred)
ReleaseOnReturn_SuccessOnly(err) == err = "nil"

\* defer out.putReq(req): runs however send returns
ReleaseOnReturn(err) == TRUE

\* the deferred out.putReq(req), run as send returns
PutReq(w) ==
    /\ pc[w] = "putReq"
    /\ IF ReleaseOnReturn(sendErr[w])
       THEN /\ idle' = idle \cup {req[w]}
            /\ log' = [log EXCEPT ![w] = Append(@, Entry("putReq", req[w], <<>>))]
       ELSE UNCHANGED <<idle, log>>
    /\ req' = [req EXCEPT ![w] = NoObj]
    /\ pc' = [pc EXCEPT ![w] = "sendRet"]
    /\ UNCHANGED <<conf, events, idx, data, sendErr, ret, made, body, hdr, replies,
                   silent, dialVars, dnsVars>>

\* Publish after out.send returned: the failure branch, the next iteration,
\* or the acknowledgement after the loop
AfterSend(w) ==
    /\ pc[w] = "sendRet"
    /\ IF SendFailed(sendErr[w])
       THEN /\ log' = [log EXCEPT ![w] = @ \o SendFailureCalls(events[w])]
            /\ ret' = [ret EXCEPT ![w] = PublishReturn("send")]
            /\ pc' = [pc EXCEPT ![w] = "done"]
            /\ UNCHANGED <<idx, sendErr>>
       ELSE IF idx[w] < Len(events[w])
       THEN /\ idx' = [idx EXCEPT ![w] = @ + 1]
            /\ pc' = [pc EXCEPT ![w] = "serialize"]
            /\ UNCHANGED <<log, ret, sendErr>>
       ELSE /\ log' = [log EXCEPT ![w] = @ \o SuccessCalls(events[w])]
            /\ ret' = [ret EXCEPT ![w] = PublishReturn("acked")]
            /\ pc' = [pc EXCEPT ![w] = "done"]
            /\ UNCHANGED <<idx, sendErr>>
    /\ UNCHANGED <<conf, events, data, req, idle, made, body, hdr, replies, silent, dialVars, dnsVars>>

\* ------------------------------------------------------------- DialContext
\* (the address lists resolve hands back: an entry returned to a caller is
\* never empty)
AddrLists == UNION { [1..n -> IPs] : n \in 1..MaxAddrs }

\* (mutant: a refused connect is reported without its error)
DialOne_Swallow(ip, accepting, done) ==
    IF done THEN [ip |-> ip, conn |-> NoConn, err |-> "context", started |-> FALSE]
    ELSE IF ip \in accepting
    THEN [ip |-> ip, conn |-> ip, err |-> "nil", started |-> TRUE]
    ELSE [ip |-> ip, conn |-> NoConn, err |-> "nil", started |-> TRUE]

\* (mutant: the connect is made whatever the state of the context)
DialOne_IgnoresCtx(ip, accepting, done) ==
    IF ip \in accepting
    THEN [ip |-> ip, conn |-> ip, err |-> "nil", started |-> TRUE]
    ELSE [ip |-> ip, conn |-> NoConn, err |-> "refused", started |-> TRUE]

\* dialer.DialContext(ctx, network, ip:port) for one candidate: with a
\* context that is already done it returns the context's error and starts
\* no connect
DialOne(ip, accepting, done) ==
    IF done THEN [ip |-> ip, conn |-> NoConn, err |-> "context", started |-> FALSE]
    ELSE IF ip \in accepting
    THEN [ip |-> ip, conn |-> ip, err |-> "nil", started |-> TRUE]
    ELSE [ip |-> ip, conn |-> NoConn, err |-> "refused", started |-> TRUE]

\* a connect that was started and is given up because the context becomes
\* done while it is in flight
Abandoned(ip) == [ip |-> ip, conn |-> NoConn, err |-> "context", started |-> TRUE]

\* (mutant: the loop has no break and goes through every candidate)
Break_Never(err) == FALSE

\* the loop exit: break when err == nil
Break(err) == err = "nil"

\* net.SplitHostPort(addr) and dnsCache.LookupHost(ctx, host)
DialStart ==
    /\ dpc = "start"
    /\ \/ /\ daddr = "invalid"
          /\ derr' = "split"
          /\ dpc' = "returned"
          /\ UNCHANGED <<dips, dk>>
       \/ /\ daddr = "host:port"
          /\ \/ /\ derr' = "lookup"
                /\ dpc' = "returned"
                /\ UNCHANGED <<dips, dk>>
             \/ \E l \in AddrLists :
                  /\ dips' = l
                  /\ dk' = 1
                  /\ derr' = "nil"
                  /\ dpc' = "loop"
    /\ UNCHANGED <<pubVars, dnsVars, daddr, dconn, dtried, daccept, ctxDone>>

\* one iteration of for _, ip := range ips
DialAttempt ==
    /\ dpc = "loop"
    /\ dk <= Len(dips)
    /\ \E r \in {DialOne(dips[dk], daccept, ctxDone)}
                 \cup (IF ctxDone THEN {} ELSE {Abandoned(dips[dk])}) :
           /\ dconn' = r.conn
           /\ derr' = r.err
           /\ dtried' = Append(dtried, r)
           /\ ctxDone' = (ctxDone \/ r.err = "context")
           /\ IF Break(r.err)
              THEN dpc' = "returned" /\ dk' = dk
              ELSE dpc' = "loop" /\ dk' = dk + 1
    /\ UNCHANGED <<pubVars, dnsVars, daddr, dips, daccept>>

\* the range is exhausted: return conn, err
DialReturn ==
    /\ dpc = "loop"
    /\ dk > Len(dips)
    /\ dpc' = "returned"
    /\ UNCHANGED <<pubVars, dnsVars, daddr, dips, dk, dconn, derr, dtried, daccept, ctxDone>>

\* the caller's context is cancelled or runs past its deadline
CtxDone ==
    /\ dpc \in {"start", "loop"}
    /\ ~ctxDone
    /\ ctxDone' = TRUE
    /\ UNCHANGED <<pubVars, dnsVars, dpc, daddr, dips, dk, dconn, derr, dtried, daccept>>

\* ---------------------------------------------------------------- DNSCache
TTL == 2
NoEntry == [addresses |-> <<>>, expiresAt |-> 0]

\* (mutant: an entry is served however old it is)
Expired_Never(e, t) == FALSE

\* an entry past expiresAt is not served again
Expired(e, t) == t > e.expiresAt

Hit(e, t) == e # NoEntry /\ ~Expired(e, t)

\* the entry stored after a successful lookup at time t
Refreshed(addrs, t) == [addresses |-> addrs, expiresAt |-> t + TTL]

\* one result of resolve: when, what was handed back, how many underlying
\* lookups it made, and until when the entry it left is served
Resolution(t, addrs, err, n, e) ==
    [at |-> t, addresses |-> addrs, err |-> err, lookups |-> n,
     expiresAt |-> e.expiresAt]

Latest(seq, r) == IF Len(seq) < 2 THEN Append(seq, r) ELSE <<seq[2], r>>

\* dnsCache.LookupHost(ctx, host): a hit serves the entry; a miss or an
\* expired entry makes one system lookup, whose result replaces the entry
\* and whose failure is not cached
LookupHost ==
    /\ IF Hit(cache, now)
       THEN /\ resolved' = Latest(resolved, Resolution(now, cache.addresses, "nil", 0, cache))
            /\ cache' = cache
       ELSE \/ \E l \in AddrLists :
                 /\ cache' = Refreshed(l, now)
                 /\ resolved' = Latest(resolved, Resolution(now, l, "nil", 1, cache'))
            \/ /\ cache' = NoEntry
               /\ resolved' = Latest(resolved, Resolution(now, <<>>, "lookup", 1, NoEntry))
    /\ UNCHANGED <<pubVars, dialVars, now>>

\* time passes
Tick ==
    /\ now < MaxTime
    /\ now' = now + 1
    /\ UNCHANGED <<pubVars, dialVars, cache, resolved>>

\* ---------------------------------------------------------- specifications
NoDNS ==
    /\ now = 0
    /\ cache = NoEntry
    /\ resolved = <<>>

InitPub ==
    /\ idx = [w \in Workers |-> 0]
    /\ data = [w \in Workers |-> NoData]
    /\ req = [w \in Workers |-> NoObj]
    /\ sendErr = [w \in Workers |-> "nil"]
    /\ ret = [w \in Workers |-> "none"]
    /\ log = [w \in Workers |-> <<>>]
    /\ idle = {}
    /\ made = 0
    /\ body = [o \in 1..MaxObjs |-> <<>>]
    /\ hdr = [o \in 1..MaxObjs |-> {}]

InitDial ==
    /\ dpc = "start"
    /\ dips = <<>>
    /\ dk = 0
    /\ dconn = NoConn
    /\ derr = "nil"
    /\ dtried = <<>>
    /\ ctxDone = FALSE

NoDial ==
    /\ InitDial
    /\ daddr = "host:port"
    /\ daccept = {}

\* a batch whose events all serialize under either strategy
WellFormed(evs) ==
    \A k \in DOMAIN evs : evs[k].encodable /\ evs[k].body = StringBody(35)

\* two concurrent Publish invocations on one output, against an endpoint
\* that answers 200 or 500; the second carries a short well-formed batch
Init ==
    /\ conf \in [OnlyFields : BOOLEAN, URLValid : BOOLEAN, Username : {FALSE},
                  Timeout : {DefaultTimeout}]
    /\ silent = FALSE
    /\ events \in [Workers -> BatchesUpTo(MaxBatch)]
    /\ Len(events[2]) <= MaxOther
    /\ WellFormed(events[2])
    /\ pc = [w \in Workers |-> "start"]
    /\ replies = { [status |-> 200, closes |-> TRUE], [status |-> 500, closes |-> TRUE] }
    /\ InitPub
    /\ NoDial
    /\ NoDNS

Next ==
    \E w \in Workers :
        \/ PublishStart(w)
        \/ Serialize(w)
        \/ GetReq(w)
        \/ Do(w)
        \/ PutReq(w)
        \/ AfterSend(w)

Spec == Init /\ [][Next]_vars

\* one Publish invocation, against an endpoint that can answer with any of
\* the status codes and whose response body may fail to close
InitSend ==
    /\ conf \in [OnlyFields : BOOLEAN, URLValid : BOOLEAN, Username : BOOLEAN,
                  Timeout : {0, DefaultTimeout}]
    /\ silent \in BOOLEAN
    /\ events \in [Workers -> BatchesUpTo(MaxBatch)]
    /\ events[2] = <<>>
    /\ pc = [w \in Workers |-> IF w = 1 THEN "start" ELSE "idle"]
    /\ replies = [status : Statuses, closes : BOOLEAN]
    /\ InitPub
    /\ NoDial
    /\ NoDNS

SpecSend == InitSend /\ [][Next]_vars

\* one call of the transport's DialContext
InitDialer ==
    /\ conf = [OnlyFields |-> FALSE, URLValid |-> TRUE, Username |-> FALSE,
               Timeout |-> DefaultTimeout]
    /\ silent = FALSE
    /\ events = [w \in Workers |-> <<>>]
    /\ pc = [w \in Workers |-> "idle"]
    /\ replies = {}
    /\ InitPub
    /\ InitDial
    /\ daddr \in {"host:port", "invalid"}
    /\ daccept \in SUBSET IPs
    /\ NoDNS

NextDial == DialStart \/ DialAttempt \/ DialReturn \/ CtxDone

SpecDial == InitDialer /\ [][NextDial]_vars

\* one Publish invocation of the field-extraction strategy on one event
\* with any shape of "body"
InitSer ==
    /\ conf = [OnlyFields |-> TRUE, URLValid |-> TRUE, Username |-> FALSE,
               Timeout |-> DefaultTimeout]
    /\ silent = FALSE
    /\ \E b \in BodyKinds : \E m \in BOOLEAN :
         events = [w \in Workers |-> IF w = 1 THEN << MkEvent(1, b, m) >> ELSE <<>>]
    /\ pc = [w \in Workers |-> IF w = 1 THEN "start" ELSE "idle"]
    /\ replies = { [status |-> 200, closes |-> TRUE] }
    /\ InitPub
    /\ NoDial
    /\ NoDNS

SpecSer == InitSer /\ [][Next]_vars

\* successive resolutions of one host through the cache, as time passes
InitDNS ==
    /\ conf = [OnlyFields |-> FALSE, URLValid |-> TRUE, Username |-> FALSE,
               Timeout |-> DefaultTimeout]
    /\ silent = FALSE
    /\ events = [w \in Workers |-> <<>>]
    /\ pc = [w \in Workers |-> "idle"]
    /\ replies = {}
    /\ InitPub
    /\ NoDial
    /\ NoDNS

NextDNS == LookupHost \/ Tick

SpecDNS == InitDNS /\ [][NextDNS]_vars

\* ------------------------------------------------------------------ claims
Calls(w, op) == SelectSeq(log[w], LAMBDA e : e.op = op)
Count(w, op) == Len(Calls(w, op))
Callbacks(w) == Count(w, "ACK") + Count(w, "RetryEvents")
Terminated(w) == pc[w] \in {"done", "panicked"}
\* positions of the log where op was called for event number n
Pos(w, op, n) == { p \in DOMAIN log[w] : log[w][p].op = op /\ log[w][p].n = n }
\* positions of the log where event number n was handed to client.Do
DoPos(w, n) ==
    { p \in DOMAIN log[w] :
        /\ log[w][p].op = "Do"
        /\ log[w][p].arg # <<>>
        /\ log[w][p].arg[1].id = n }
SerializesOK(w, i) == serialize(conf, events[w][i]).res = "ok"
AllSerialize(w) == \A i \in DOMAIN events[w] : SerializesOK(w, i)
NoSendFailed(w) ==
    /\ sendErr[w] = "nil"
    /\ \A p \in DOMAIN log[w] : log[w][p].op = "Do" => log[w][p].n = StatusOK
\* nothing was serialized or sent for an event after event number n
NothingAfter(w, n) ==
    /\ \A p \in DOMAIN log[w] :
         log[w][p].op \in {"serialize", "send"} => log[w][p].n <= n
    /\ \A m \in DOMAIN events[w] : m > n => DoPos(w, m) = {}

\* C1: a Publish invocation calls at most one of ACK() and RetryEvents(), at
\* most once, and an invocation that has terminated having called neither
\* terminated because a send failed.
C1_OneCallbackUnlessSendFailed ==
    \A w \in Workers :
        /\ Callbacks(w) <= 1
        /\ (Terminated(w) /\ Callbacks(w) = 0) => sendErr[w] # "nil"

\* C2: for a non-empty batch whose events all serialize and whose sends all
\* succeed, Publish calls ACK() exactly once, after the send of the last
\* event has succeeded, and never calls RetryEvents().
C2_AckOnceAfterLastSend ==
    \A w \in Workers :
        (Len(events[w]) > 0 /\ AllSerialize(w)) =>
            /\ Count(w, "RetryEvents") = 0
            /\ Count(w, "ACK") <= 1
            /\ (pc[w] = "done" /\ NoSendFailed(w)) => Count(w, "ACK") = 1
            /\ \A p \in DOMAIN log[w] :
                 log[w][p].op = "ACK" =>
                    \E q \in DoPos(w, Len(events[w])) :
                        q < p /\ log[w][q].n = StatusOK

C2_Witness ==
    \E w \in Workers :
        /\ pc[w] = "done"
        /\ Len(events[w]) >= 2
        /\ AllSerialize(w)
        /\ NoSendFailed(w)
        /\ Count(w, "ACK") = 1

\* C3: when event N is the first to fail serialization, Publish calls
\* RetryEvents() exactly once with all events of the batch in their original
\* order, does not call ACK(), serializes event N only that once, and
\* serializes and sends nothing for event N or a later event afterwards.
C3_SerializeFailureRetriesWholeBatch ==
    \A w \in Workers : \A N \in DOMAIN events[w] :
        (Pos(w, "serialize", N) # {} /\ serialize(conf, events[w][N]).res = "err") =>
            /\ pc[w] = "done"
            /\ Count(w, "ACK") = 0
            /\ Count(w, "RetryEvents") = 1
            /\ LET given == Calls(w, "RetryEvents")[1].arg
               IN  /\ Len(given) = Len(events[w])
                   /\ \A i \in DOMAIN given : given[i].id = i
                   /\ given = events[w]
            /\ Cardinality(Pos(w, "serialize", N)) = 1
            /\ Pos(w, "send", N) = {}
            /\ DoPos(w, N) = {}
            /\ NothingAfter(w, N)

C3_Witness ==
    \E w \in Workers :
        /\ pc[w] = "done"
        /\ Len(events[w]) = 2
        /\ Pos(w, "serialize", 2) # {}
        /\ serialize(conf, events[w][2]).res = "err"
        /\ Count(w, "RetryEvents") = 1

\* C4: when the send of event N fails (pool error, transport error or a
\* status other than 200), Publish calls neither ACK() nor RetryEvents() and
\* serializes and sends no event after N.
C4_SendFailureLeavesBatchUnresolved ==
    \A w \in Workers :
        (pc[w] \in {"sendRet", "done"} /\ sendErr[w] # "nil") =>
            /\ Callbacks(w) = 0
            /\ Cardinality(Pos(w, "send", idx[w])) = 1
            /\ NothingAfter(w, idx[w])

C4_Witness ==
    /\ pc[1] = "done" /\ sendErr[1] = "status"
    /\ idx[1] = 1 /\ Len(events[1]) = 2
    /\ pc[2] = "done" /\ sendErr[2] = "transport"
    /\ idx[2] = 1 /\ Len(events[2]) = 1

\* C5: for an empty batch Publish calls ACK() exactly once and returns
\* without serializing, acquiring a pooled request or sending.
C5_EmptyBatchAcked ==
    \A w \in Workers :
        (Len(events[w]) = 0 /\ pc[w] \notin {"start", "idle"}) =>
            /\ pc[w] = "done"
            /\ Count(w, "ACK") = 1
            /\ Count(w, "RetryEvents") = 0
            /\ Count(w, "serialize") = 0
            /\ Count(w, "send") = 0
            /\ Count(w, "Do") = 0
            /\ req[w] = NoObj

C5_Witness ==
    \E w \in Workers :
        /\ Len(events[w]) = 0
        /\ pc[w] = "done"
        /\ Count(w, "ACK") = 1
        /\ made > 0

\* C6: the events handed to client.Do are the events of the batch in their
\* original order, each at most once (a prefix of the batch), each carrying
\* the serialization of its event, and event i is handed over only after
\* every earlier event was serialized and sent with a 200 response.
C6_SendsInBatchOrder ==
    \A w \in Workers :
        LET dos == Calls(w, "Do")
        IN  /\ Len(dos) <= Len(events[w])
            /\ \A k \in DOMAIN dos :
                 /\ dos[k].arg[1].id = k
                 /\ dos[k].arg = << serialize(conf, events[w][k]).data >>
            /\ \A p \in DOMAIN log[w] :
                 log[w][p].op = "Do" =>
                    \A j \in 1..(log[w][p].arg[1].id - 1) :
                        /\ \E q \in Pos(w, "serialize", j) : q < p
                        /\ \E q \in DoPos(w, j) : q < p /\ log[w][q].n = StatusOK

C6_Witness ==
    \E w \in Workers :
        LET dos == Calls(w, "Do")
        IN  /\ Len(dos) = 2
            /\ dos[1].n = StatusOK
            /\ dos[2].arg[1].id = 2

\* the calls of client.Do made by the send that has just returned
LastSendDos(w) ==
    { q \in DOMAIN log[w] :
        /\ log[w][q].op = "Do"
        /\ \A p \in DOMAIN log[w] : log[w][p].op = "send" => p < q
        /\ log[w][q].arg[1].id = idx[w] }

\* C7: send returns success exactly when a request was acquired, the
\* transport returned a response and its status is 200; every other status
\* gives one and the same kind of failure.
C7_SendSucceedsOnlyOn200 ==
    \A w \in Workers :
        pc[w] = "sendRet" =>
            /\ Cardinality(LastSendDos(w)) <= 1
            /\ sendErr[w] = "nil" <=>
                  \E q \in LastSendDos(w) : log[w][q].n = StatusOK
            /\ sendErr[w] = "status" <=>
                  \E q \in LastSendDos(w) : log[w][q].n \in Statuses \ {StatusOK}
            /\ sendErr[w] = "transport" <=>
                  \E q \in LastSendDos(w) : log[w][q].n \notin Statuses
            /\ sendErr[w] = "pool" <=> LastSendDos(w) = {}

C7_Witness ==
    \E w \in Workers :
        /\ pc[w] = "sendRet"
        /\ sendErr[w] = "status"
        /\ \E q \in LastSendDos(w) : log[w][q].n = 204

\* C8: every Publish invocation that terminates has returned a nil error.
C8_PublishReturnsNil ==
    \A w \in Workers : Terminated(w) => ret[w] = "nil"

\* the calls made on the metrics observer
Observed(w) ==
    SelectSeq(log[w],
              LAMBDA e : e.op \in {"NewBatch", "Acked", "Failed", "Retried"})

\* C9 as stated: a batch that ends on a serialization failure is reported to
\* the observer as Retried, not as Failed.
C9_RetriedOutcomeReported ==
    \A w \in Workers :
        (pc[w] = "done" /\ Count(w, "RetryEvents") = 1) =>
            /\ Count(w, "Retried") = 1
            /\ Count(w, "Failed") = 0

\* C9 as amended: a batch that ends on a serialization failure is reported
\* to the observer as Failed with the batch's event count, the same call
\* that reports a failed send; the two ends differ only in the batch
\* callback. Acked with the event count is reported exactly when ACK() was
\* called on a non-empty batch.
C9_FailedReportedForRetryAndSendFailure ==
    \A w \in Workers :
        pc[w] = "done" =>
            LET n == Len(events[w])
                failed == << Entry("NewBatch", n, <<>>), Entry("Failed", n, <<>>) >>
                acked == << Entry("NewBatch", n, <<>>), Entry("Acked", n, <<>>) >>
            IN  /\ Count(w, "RetryEvents") = 1 => Observed(w) = failed
                /\ sendErr[w] # "nil" => (Observed(w) = failed /\ Callbacks(w) = 0)
                /\ Observed(w) = acked <=> (Count(w, "ACK") = 1 /\ n > 0)

C9_Witness ==
    /\ pc[1] = "done" /\ Count(1, "RetryEvents") = 1
    /\ pc[2] = "done" /\ sendErr[2] # "nil" /\ Callbacks(2) = 0
    /\ Observed(1) = Observed(2)

\* the first candidate of ips that accepts a connection
FirstAccepting == CHOOSE k \in DOMAIN dips :
                    /\ dips[k] \in daccept
                    /\ \A j \in 1..(k - 1) : dips[j] \notin daccept

\* C10: the dialer tries the candidates in the resolver's order, tries none
\* after one that connected and returns that connection with a nil error;
\* while the context is live, the connection is the first accepting
\* candidate's even when earlier candidates refused.
C10_FirstConnectingCandidate ==
    /\ Len(dtried) <= Len(dips)
    /\ \A k \in DOMAIN dtried :
         /\ dtried[k].ip = dips[k]
         /\ k < Len(dtried) => dtried[k].err # "nil"
    /\ (dpc = "returned" /\ \E k \in DOMAIN dtried : dtried[k].err = "nil") =>
         /\ dconn = dtried[Len(dtried)].conn
         /\ dconn # NoConn
         /\ derr = "nil"
    /\ (dpc = "returned" /\ ~ctxDone /\ \E k \in DOMAIN dips : dips[k] \in daccept) =>
         /\ dconn = dips[FirstAccepting]
         /\ derr = "nil"
         /\ Len(dtried) = FirstAccepting

C10_Witness ==
    /\ dpc = "returned"
    /\ Len(dtried) = 2
    /\ dtried[1].err = "refused"
    /\ dconn = dips[2]
    /\ derr = "nil"

C17_NoAttemptAfterContextDone ==
    /\ \A k \in DOMAIN dtried :
         dtried[k].err = "context" =>
            /\ ctxDone
            /\ \A j \in (k + 1)..Len(dtried) :
                 ~dtried[j].started /\ dtried[j].err = "context"
    /\ (dpc = "returned" /\ \E k \in DOMAIN dtried : dtried[k].err = "context") =>
         derr = "context" /\ dconn = NoConn

C17_Witness ==
    /\ dpc = "returned"
    /\ Len(dtried) = 2
    /\ dtried[1].started
    /\ dtried[1].err = "context"
    /\ ~dtried[2].started
    /\ dips[2] \in daccept

\* the workers whose send holds request object o
Holders(o) == { w \in Workers : req[w] = o }
InSend(w) == pc[w] \in {"do", "putReq", "waiting"}

\* C12: a pooled request object is held by at most one send at a time, and
\* an object a send holds is not in the pool for another getReq to take.
C12_ExclusiveBorrow ==
    /\ \A o \in 1..MaxObjs : Cardinality(Holders(o)) <= 1
    /\ \A w \in Workers : req[w] # NoObj => req[w] \notin idle

C12_Witness ==
    /\ pc[1] = "do" /\ pc[2] = "do"
    /\ req[1] # req[2]
    /\ \E p \in DOMAIN log[1] : log[1][p].op = "putReq" /\ log[1][p].n = req[2]

\* C13: the request getReq(data) returns carries a body of exactly data and
\* has User-Agent and Content-Type set, whether the object is fresh or was
\* used before (with its earlier payload read or left unread).
C13_FreshBodyAndHeaders ==
    \A w \in Workers :
        pc[w] = "do" =>
            /\ body[req[w]] = << data[w] >>
            /\ data[w] = serialize(conf, events[w][idx[w]]).data
            /\ {"User-Agent", "Content-Type"} \subseteq hdr[req[w]]

\* a request object reused after a send that failed in the transport
C13_Witness ==
    \E w \in Workers : \E v \in Workers \ {w} :
        /\ pc[w] = "do"
        /\ pc[v] = "done"
        /\ sendErr[v] = "transport"
        /\ \E p \in DOMAIN log[v] : log[v][p].op = "putReq" /\ log[v][p].n = req[w]
        /\ data[w] # data[v]

\* the getReq and putReq calls of the invocation, in order
PoolCalls(w) == SelectSeq(log[w], LAMBDA e : e.op \in {"getReq", "putReq"})

\* C15: every getReq that returned an object is followed by one putReq of
\* that object before send returns, a failed getReq by none, so outside a
\* send nothing is borrowed: every constructed object is back in the pool.
C15_ReleasedOnEveryPath ==
    /\ \A w \in Workers :
         LET calls == PoolCalls(w)
         IN  /\ InSend(w) <=> req[w] # NoObj
             /\ \A k \in DOMAIN calls :
                  /\ (calls[k].op = "getReq" /\ calls[k].n # NoObj) =>
                        IF k = Len(calls)
                        THEN InSend(w) /\ req[w] = calls[k].n
                        ELSE calls[k + 1].op = "putReq" /\ calls[k + 1].n = calls[k].n
                  /\ calls[k].op = "putReq" =>
                        /\ k > 1
                        /\ calls[k - 1].op = "getReq"
                        /\ calls[k - 1].n = calls[k].n
    /\ Cardinality(idle) + Cardinality({ w \in Workers : req[w] # NoObj }) = made

C15_Witness ==
    /\ \A w \in Workers : pc[w] = "done"
    /\ sendErr[1] = "status"
    /\ sendErr[2] = "transport"
    /\ made = 2
    /\ Cardinality(idle) = 2

\* C16: a response is always followed by the close of its body before send
\* returns, whatever its status; a failed close is logged with a warning and
\* leaves the result of send to the status alone.
C16_BodyClosedResultUnchanged ==
    \A w \in Workers :
        /\ \A p \in DOMAIN log[w] :
             (log[w][p].op = "Do" /\ log[w][p].n \in Statuses) =>
                /\ p < Len(log[w])
                /\ log[w][p + 1].op = "Close"
                /\ log[w][p + 1].n = 0 =>
                      (p + 1 < Len(log[w]) /\ log[w][p + 2].op = "Warn")
        /\ pc[w] \in {"putReq", "sendRet"} =>
             \A q \in LastSendDos(w) :
                log[w][q].n \in Statuses =>
                    sendErr[w] = (IF log[w][q].n = StatusOK THEN "nil" ELSE "status")

C16_Witness ==
    \E w \in Workers :
        /\ pc[w] = "sendRet"
        /\ sendErr[w] = "nil"
        /\ \E q \in LastSendDos(w) :
             /\ log[w][q].n = StatusOK
             /\ log[w][q + 1].op = "Close"
             /\ log[w][q + 1].n = 0

\* a step of worker w's Publish invocation
Step(w) ==
    \/ PublishStart(w)
    \/ Serialize(w)
    \/ GetReq(w)
    \/ Do(w)
    \/ PutReq(w)
    \/ AfterSend(w)

\* C18: a Publish invocation that has not ended can always take its next
\* step: no send blocks for ever on an endpoint that does not answer.
C18_NeverBlocked ==
    \A w \in Workers :
        pc[w] \notin {"idle", "done", "panicked"} => ENABLED Step(w)

\* the events of the batch that were delivered (sent and answered with 200)
Delivered(w) ==
    { n \in DOMAIN events[w] : \E p \in DoPos(w, n) : log[w][p].n = StatusOK }
Unresolved(w) == pc[w] = "done" /\ sendErr[w] # "nil"
Retried(w) == Count(w, "RetryEvents") = 1

\* C19 as stated: when the batch is handed back for retry or left
\* unresolved, none of its events has been delivered.
C19_NothingDeliveredBeforeRetry ==
    \A w \in Workers : (Retried(w) \/ Unresolved(w)) => Delivered(w) = {}

\* C19 as amended: when the batch is handed back for retry or left
\* unresolved because of event N, exactly the events before N have been
\* delivered and none from N on; the batch handed back contains them.
C19_PrefixDeliveredBeforeRetry ==
    \A w \in Workers :
        (Retried(w) \/ Unresolved(w)) =>
            /\ Delivered(w) = 1..(idx[w] - 1)
            /\ Retried(w) =>
                 \A n \in Delivered(w) :
                    \E k \in DOMAIN Calls(w, "RetryEvents")[1].arg :
                        Calls(w, "RetryEvents")[1].arg[k].id = n

C19_Witness ==
    \E w \in Workers :
        /\ Retried(w)
        /\ idx[w] = 2
        /\ Delivered(w) = {1}

\* C14: of two successive resolutions, the second, made while the entry the
\* first left is unexpired, hands back the same addresses with no
\* underlying lookup (one at most between the two); made after the expiry
\* it makes exactly one lookup and serves that lookup's result.
C14_CachedWithinTTL ==
    Len(resolved) = 2 =>
        LET a == resolved[1]
            b == resolved[2]
        IN  /\ (a.err = "nil" /\ b.at <= a.expiresAt) =>
                 /\ b.addresses = a.addresses
                 /\ b.err = "nil"
                 /\ b.lookups = 0
                 /\ a.lookups + b.lookups <= 1
            /\ (a.err = "nil" /\ b.at > a.expiresAt) =>
                 /\ b.lookups = 1
                 /\ b.err = "nil" => (b.addresses = cache.addresses /\ b.addresses # <<>>)
            /\ b.err # "nil" => b.addresses = <<>>

\* a hit, then after the expiry a lookup that brings other addresses
C14_Witness ==
    /\ Len(resolved) = 2
    /\ resolved[1].err = "nil"
    /\ resolved[1].lookups = 0
    /\ resolved[2].at > resolved[1].expiresAt
    /\ resolved[2].lookups = 1
    /\ resolved[2].err = "nil"
    /\ resolved[2].addresses # resolved[1].addresses

\* C20: serializeOnlyFields hands back bytes or an error for every event,
\* so no Publish invocation using it is aborted.
C20_SerializeOnlyFieldsTotal ==
    \A w \in Workers :
        /\ pc[w] # "panicked"
        /\ \A p \in DOMAIN log[w] :
             log[w][p].op = "serialize" =>
                serializeOnlyFields(events[w][log[w][p].n]).res \in {"ok", "err"}

====
